---- MODULE Spec2Model ----
(***************************************************************************)
(* Model of the personio client of rootless-personio: the session state    *)
(* (login / assertLoggedIn), the attendance operations of                  *)
(* pkg/personio/attendance.go and the day-ID cache.                        *)
(*                                                                         *)
(* The repository holds two variants of the attendance file: the one at    *)
(* src/pkg/personio/attendance.go (GetAttendanceCalendar builds its query  *)
(* on a nil url.Values and formats startDate twice) and the later one kept *)
(* after the schema in src/personio.schema.json (SetAttendance, the day-ID *)
(* cache and a calendar fetch with distinct start and end).  Both are      *)
(* modelled: GetAttendanceCalendar is the former, GetMyAttendanceCalendar  *)
(* (the fetch the cache calls) is the latter.                              *)
(*                                                                         *)
(* Specifications: Spec (session and the operations of attendance.go),     *)
(* CacheSpec (GetOrNewDayUUID and SetAttendance), PeriodSpec (SetAttendance*)
(* over the period domain), RefreshSpec (GetDayUUID), WriteSpec            *)
(* (SetAttendance one step at a time) and ConcSpec (GetOrNewDayUUID called *)
(* by several callers of a host that guards the cache).                    *)
(***************************************************************************)
EXTENDS Integers, Sequences, FiniteSets, TLC

\* ------------------------------------------------------------------ bounds
DaysPerMonth == 2       \* days of the first month of the model calendar
MaxTick == 4            \* instants are 0..MaxTick sub-second ticks
TicksPerSecond == 4     \* ticks in one second (tick 3 of 4 is .750)
LocalOffset == 1        \* offset of the local zone from UTC, in seconds
NumCallers == 2         \* concurrent callers of GetOrNewDayUUID in a host
MaxUUID == 2            \* uuid.New() calls for period identifiers in one run

\* ------------------------------------------------------------------ values
Months == {"2023-01", "2023-02"}
\* The model calendar: a month of DaysPerMonth days, then one a day shorter.
DaysIn(m) == IF m = "2023-01" THEN DaysPerMonth ELSE DaysPerMonth - 1
Dates == {d \in Months \X (1..DaysPerMonth) : d[2] <= DaysIn(d[1])}
OneDate == <<"2023-01", 1>>
Zones == {"UTC", "Local"}
Times == [ticks : 0..MaxTick, zone : Zones]

AuthStates == {"LoggedOut", "AwaitingDeviceChallenge", "LoggedIn"}

\* The employee the session resolves to, and another one.
MyEmployee == "emp-me"
Employees == {MyEmployee, "emp-other"}

NoToken == ""
Credentials == [valid : BOOLEAN, csrfToken : {NoToken, "csrf"}, emailToken : {NoToken, "mail"}]

FullCredentials == [valid |-> TRUE, csrfToken |-> "csrf", emailToken |-> "mail"]

\* uuid.UUID: the zero value, one the caller or the server supplies, or one
\* made by uuid.New().  uuid.New() never returns a value twice: the n-th
\* identifier made for a period and the n-th made for the day `for` are all
\* different values.
UUIDNil == [origin |-> "nil", n |-> 0, for |-> <<>>]
UUIDNew(n) == [origin |-> "client", n |-> n, for |-> <<>>]
DayUUIDNew(d, n) == [origin |-> "client", n |-> n, for |-> d]
GivenUUID == [origin |-> "caller", n |-> 0, for |-> <<>>]

VARIABLES
    authState,      \* Session.authenticationState
    sessionCookie,  \* Session.sessionCookie ("" when none)
    employeeID,     \* Client.EmployeeID ("" when unresolved)
    csrfToken,      \* CSRF token handed out by a new-device challenge
    dayIDCache,     \* Client.dayIDCache: date string -> absent | nil | id
    uuidCount,      \* number of uuid.New() calls for period identifiers so far
    crashed,        \* the process ended in a panic
    deviceKnown,    \* the server recognises this client's device
    last,           \* what the last call did: op, args, requests, result
    periods,        \* the caller's slice of periods, which SetAttendance edits in place
    queried,        \* months GetOrNewDayUUID has sent a calendar query for
    listed,         \* dates a calendar response to GetDayUUID listed a record for
    mintCount,      \* per date: uuid.New() calls of GetOrNewDayUUID for the date
    returned,       \* per date: the first identifier GetOrNewDayUUID returned
    failedSubmit,   \* dates whose submit failed after an identifier was minted
    write,          \* the SetAttendance call in progress, when it is run step by step
    credentials,    \* the credentials the caller holds and passes to login
    lock,           \* concurrent host: the caller inside the critical section, or 0
    callers,        \* concurrent host: where each caller's GetOrNewDayUUID stands
    outFormat,      \* config: the OutFormat value held ("" is the zero value)
    setResult       \* what the last OutFormat.Set or UnmarshalText call did

vars == <<authState, sessionCookie, employeeID, csrfToken, dayIDCache, uuidCount,
          crashed, deviceKnown, last, periods, queried, listed,
          mintCount, returned, failedSubmit, write, credentials, lock, callers,
          outFormat, setResult>>

session == <<authState, sessionCookie, employeeID, csrfToken, deviceKnown>>
hostVars == <<lock, callers>>
configVars == <<outFormat, setResult>>
cacheVars == <<dayIDCache, periods, queried, listed, mintCount, returned, failedSubmit>>

\* --------------------------------------------------------------- time
\* time.Time.Format("2006-01-02"): a date prints as its year-month and day.
DateOnly(d) == <<d[1], d[2]>>

\* Wall-clock ticks of an instant in its own zone.
WallTicks(t) == t.ticks + (IF t.zone = "Local" THEN LocalOffset * TicksPerSecond ELSE 0)

\* time.Time.Format("2006-01-02T15:04:05Z"): the wall-clock second of the
\* time in its own location followed by a literal Z; no fraction is printed.
FormatSecondsZ(t) == [sec |-> WallTicks(t) \div TicksPerSecond, suffix |-> "Z"]

\* time.Time.Local(): the same instant, shown in the local zone.
ToLocal(t) == [t EXCEPT !.zone = "Local"]

\* ------------------------------------------------------------ call record
\* minted: the call logged "Randomized new UUID for day."
\* outs: what came back for each request of reqs, in the order sent.
NoCall == [op |-> "none", pre |-> "LoggedOut", err |-> "nil",
           reqs |-> <<>>, ret |-> <<>>, args |-> <<>>, minted |-> FALSE,
           outs |-> <<>>]

Call(op, pre, err, reqs, ret, args) ==
    [op |-> op, pre |-> pre, err |-> err, reqs |-> reqs, ret |-> ret, args |-> args,
     minted |-> FALSE, outs |-> <<>>]

\* The call record with the answers its requests got.
Answered(call, outs) == [call EXCEPT !.outs = outs]

\* Outcome of sending one request through RawJSON and ParseResponseJSON: a
\* success response that parses, an error of RawJSON (transport failure or
\* non-success status), or an error of ParseResponseJSON.
HTTPOutcomes == {"ok", "TransportError", "RemoteAPIError", "ParseError"}

\* The outcomes drawn for the requests of the day-ID cache and of
\* SetAttendance, whose code returns on any error alike: success, and one
\* failure of the request.
CacheOutcomes == {"ok", "RemoteAPIError"}

\* ---------------------------------------------------------------- session
\* Client.assertLoggedIn: nil when the session is logged in, otherwise the
\* not-logged-in error; it reads the state and does nothing else.
assertLoggedIn(state) == IF state = "LoggedIn" THEN "nil" ELSE "NotLoggedIn"

\* What the login endpoint may answer to the given credentials.  A device
\* the server does not know is challenged unless the credentials carry the
\* CSRF token and the emailed token; a challenge may or may not set a cookie.
LoginResponses(cred) ==
    {[kind |-> "TransportError", cookie |-> FALSE]} \cup
    (IF ~cred.valid
       THEN {[kind |-> "AuthFailure", cookie |-> FALSE]}
       ELSE IF deviceKnown \/ (cred.csrfToken # NoToken /\ cred.emailToken # NoToken)
              THEN {[kind |-> "Success", cookie |-> TRUE]}
              ELSE {[kind |-> "NewDevice", cookie |-> c] : c \in BOOLEAN})

\* A login that takes any response with a session cookie for a success.
LoginStateCookieFirst(pre, resp) ==
    IF resp.cookie THEN "LoggedIn"
    ELSE IF resp.kind = "NewDevice" THEN "AwaitingDeviceChallenge"
    ELSE pre

\* A login that never records a success.
LoginStateIgnoresSuccess(pre, resp) ==
    IF resp.kind = "NewDevice" THEN "AwaitingDeviceChallenge" ELSE pre

\* A login that takes every answer but a challenge for a success.
LoginStateFailureLogsIn(pre, resp) ==
    IF resp.kind = "NewDevice" THEN "AwaitingDeviceChallenge" ELSE "LoggedIn"

\* The authentication state login leaves the session in.
LoginState(pre, resp) ==
    IF resp.kind = "NewDevice" THEN "AwaitingDeviceChallenge"
    ELSE IF resp.kind = "Success" THEN "LoggedIn"
    ELSE pre

\* The error login reports.
LoginError(resp) ==
    CASE resp.kind = "Success" -> "nil"
      [] resp.kind = "NewDevice" -> "AuthChallengeRequired"
      [] OTHER -> resp.kind

\* login(credentials): one handshake request, no retry.
Login(cred) ==
    /\ ~crashed
    /\ \E resp \in LoginResponses(cred) :
         LET post == LoginState(authState, resp) IN
         /\ authState' = post
         /\ sessionCookie' = IF post = "LoggedIn" /\ resp.kind = "Success"
                               THEN "cookie" ELSE sessionCookie
         /\ employeeID' = IF post = "LoggedIn" /\ resp.kind = "Success"
                            THEN MyEmployee ELSE employeeID
         /\ csrfToken' = IF resp.kind = "NewDevice" THEN "csrf" ELSE csrfToken
         /\ deviceKnown' = (deviceKnown \/ resp.kind = "Success")
         /\ last' = Answered(Call("Login", authState, LoginError(resp),
                                  <<[method |-> "POST", path |-> "/login/index"]>>,
                                  <<resp>>, <<cred>>), <<resp.kind>>)
    /\ UNCHANGED <<configVars, hostVars, credentials, write, uuidCount, crashed, cacheVars>>

\* The caller fills in other credentials before it invokes login again (the
\* user edits the configuration, for instance to add the two tokens).  This
\* is no operation of the client.
SupplyCredentials(cred) ==
    /\ ~crashed
    /\ cred # credentials
    /\ credentials' = cred
    /\ UNCHANGED <<configVars, hostVars, session, uuidCount, crashed, cacheVars, last, write>>

\* A caller asking only whether the session is logged in.
AssertLoggedIn ==
    /\ ~crashed
    /\ last' = Call("assertLoggedIn", authState, assertLoggedIn(authState),
                    <<>>, <<>>, <<>>)
    /\ UNCHANGED <<configVars, hostVars, credentials, write, session, uuidCount, crashed, cacheVars>>

\* ------------------------------------------------ attendance.go (first file)
\* url.Values: a map that may be nil.  Set on a nil map panics.
NilValues == [isNil |-> TRUE, panicked |-> FALSE,
              kv |-> [k \in {"start_date", "end_date"} |-> <<>>]]
MadeValues == [NilValues EXCEPT !.isNil = FALSE]

ValuesSet(v, key, value) ==
    IF v.panicked THEN v
    ELSE IF v.isNil THEN [v EXCEPT !.panicked = TRUE]
    ELSE [v EXCEPT !.kv[key] = value]

\* attendance.go:91-94: `var queryParams url.Values` and the two Set calls.
CalendarQueryParams(startDate, endDate) ==
    ValuesSet(ValuesSet(NilValues, "start_date", DateOnly(startDate)),
              "end_date", DateOnly(startDate))

CalendarRequest(employee, q) ==
    [method |-> "GET", path |-> <<"/svc/attendance-bff/attendance-calendar", employee>>,
     start_date |-> q.kv["start_date"], end_date |-> q.kv["end_date"]]

\* GetAttendanceCalendar without the early return of lines 87-89.
GetAttendanceCalendarNoCheck(employee, startDate, endDate) ==
    /\ ~crashed
    /\ LET args == <<employee, startDate, endDate>>
           q == CalendarQueryParams(startDate, endDate)
       IN IF q.panicked
            THEN /\ last' = Call("GetAttendanceCalendar", authState, "panic",
                                 <<>>, <<>>, args)
                 /\ crashed' = TRUE
            ELSE /\ \E out \in HTTPOutcomes :
                      last' = Answered(Call("GetAttendanceCalendar", authState,
                                   IF out = "ok" THEN "nil" ELSE out,
                                   <<CalendarRequest(employee, q)>>,
                                   IF out = "ok" THEN <<"calendar">> ELSE <<>>, args),
                                       <<out>>)
                 /\ crashed' = crashed
    /\ UNCHANGED <<configVars, hostVars, credentials, write, session, uuidCount, cacheVars>>

\* Client.GetAttendanceCalendar of pkg/personio/attendance.go.
GetAttendanceCalendar(employee, startDate, endDate) ==
    /\ ~crashed
    /\ LET args == <<employee, startDate, endDate>>
           q == CalendarQueryParams(startDate, endDate)
       IN IF assertLoggedIn(authState) # "nil"
            THEN /\ last' = Call("GetAttendanceCalendar", authState,
                                 assertLoggedIn(authState), <<>>, <<>>, args)
                 /\ crashed' = crashed
            ELSE IF q.panicked
            THEN /\ last' = Call("GetAttendanceCalendar", authState, "panic",
                                 <<>>, <<>>, args)
                 /\ crashed' = TRUE
            ELSE /\ \E out \in HTTPOutcomes :
                      last' = Answered(Call("GetAttendanceCalendar", authState,
                                   IF out = "ok" THEN "nil" ELSE out,
                                   <<CalendarRequest(employee, q)>>,
                                   IF out = "ok" THEN <<"calendar">> ELSE <<>>, args),
                                       <<out>>)
                 /\ crashed' = crashed
    /\ UNCHANGED <<configVars, hostVars, credentials, write, session, uuidCount, cacheVars>>

\* Periods the server may list for GetWorkingTimes (instants in UTC).
ServerPeriodLists ==
    {<<>>, <<[Start |-> [ticks |-> 0, zone |-> "UTC"],
              End |-> [ticks |-> MaxTick, zone |-> "UTC"]]>>}

\* attendance.go:137-142: every returned instant is converted to local time.
LocalPeriods(res) ==
    [k \in 1..Len(res) |-> [Start |-> ToLocal(res[k].Start), End |-> ToLocal(res[k].End)]]

\* A caller that sends the request again when it failed.
SendTwiceOnFailure(req, out) ==
    IF out = "ok" THEN [reqs |-> <<req>>, outs |-> <<out>>]
    ELSE [reqs |-> <<req, req>>, outs |-> <<out, out>>]

\* c.RawJSON(req) followed by ParseResponseJSON(resp): the request is sent
\* once and answered once.
SendOnce(req, out) == [reqs |-> <<req>>, outs |-> <<out>>]

\* A GetWorkingTimes that answers a failed request with an empty list.
WorkingTimesResultSuppressed(out, res) ==
    [err |-> "nil", ret |-> IF out = "ok" THEN <<LocalPeriods(res)>> ELSE << <<>> >>]

\* attendance.go:128-143: the error of RawJSON or of ParseResponseJSON as it
\* is, with no list; otherwise the list in local time.
WorkingTimesResult(out, res) ==
    IF out # "ok" THEN [err |-> out, ret |-> <<>>]
    ELSE [err |-> "nil", ret |-> <<LocalPeriods(res)>>]

WorkingTimesRequest(from, to) ==
    [method |-> "GET", path |-> "/api/v1/attendances/periods",
     startDate |-> DateOnly(from), endDate |-> DateOnly(to),
     employee |-> employeeID]

\* GetWorkingTimes without the early return of lines 114-116.
GetWorkingTimesNoCheck(from, to) ==
    /\ ~crashed
    /\ \E out \in HTTPOutcomes :
       \E res \in (IF out = "ok" THEN ServerPeriodLists ELSE {<<>>}) :
         LET sent == SendOnce(WorkingTimesRequest(from, to), out)
             r == WorkingTimesResult(out, res)
         IN last' = Answered(Call("GetWorkingTimes", authState, r.err, sent.reqs,
                                  r.ret, <<from, to>>), sent.outs)
    /\ UNCHANGED <<configVars, hostVars, credentials, write, session, uuidCount, crashed, cacheVars>>

\* Client.GetWorkingTimes.
GetWorkingTimes(from, to) ==
    /\ ~crashed
    /\ IF assertLoggedIn(authState) # "nil"
         THEN last' = Call("GetWorkingTimes", authState, assertLoggedIn(authState),
                           <<>>, <<>>, <<from, to>>)
         ELSE \E out \in HTTPOutcomes :
              \E res \in (IF out = "ok" THEN ServerPeriodLists ELSE {<<>>}) :
                LET sent == SendOnce(WorkingTimesRequest(from, to), out)
                    r == WorkingTimesResult(out, res)
                IN last' = Answered(Call("GetWorkingTimes", authState, r.err,
                                         sent.reqs, r.ret, <<from, to>>), sent.outs)
    /\ UNCHANGED <<configVars, hostVars, credentials, write, session, uuidCount, crashed, cacheVars>>

\* A payload of two records, the second a copy of the first.
WorkingTimesPayloadTwice(id, employee, from, to) ==
    <<[ID |-> id, EmployeeID |-> employee,
       Start |-> FormatSecondsZ(from), End |-> FormatSecondsZ(to)],
      [ID |-> id, EmployeeID |-> employee,
       Start |-> FormatSecondsZ(from), End |-> FormatSecondsZ(to)]>>

\* attendance.go:161-176: the one-record payload of SetWorkingTimes.
WorkingTimesPayload(id, employee, from, to) ==
    <<[ID |-> id, EmployeeID |-> employee,
       Start |-> FormatSecondsZ(from), End |-> FormatSecondsZ(to)]>>

\* attendance.go:188-198: the error of RawJSON or of ParseResponseJSON as it
\* is; nil once the response has parsed.
SubmitError(out) == IF out = "ok" THEN "nil" ELSE out

\* Client.SetWorkingTimes.
SetWorkingTimes(from, to) ==
    /\ ~crashed
    /\ IF assertLoggedIn(authState) # "nil"
         THEN /\ last' = Call("SetWorkingTimes", authState, assertLoggedIn(authState),
                              <<>>, <<>>, <<from, to>>)
              /\ uuidCount' = uuidCount
         ELSE /\ uuidCount < MaxUUID
              /\ uuidCount' = uuidCount + 1
              /\ \E out \in HTTPOutcomes :
                   LET req == [method |-> "POST", path |-> "/api/v1/attendances/periods",
                               body |-> WorkingTimesPayload(UUIDNew(uuidCount + 1),
                                                            employeeID, from, to)]
                       sent == SendOnce(req, out)
                   IN last' = Answered(Call("SetWorkingTimes", authState,
                                            SubmitError(out), sent.reqs, <<>>,
                                            <<from, to>>), sent.outs)
    /\ UNCHANGED <<configVars, hostVars, credentials, write, session, crashed, cacheVars>>

\* ------------------------------------- attendance file after the schema
\* Position of a date in the calendar, for ordering dates.
DateIndex(d) == (IF d[1] = "2023-01" THEN 0 ELSE DaysPerMonth) + d[2]
Before(d1, d2) == DateIndex(d1) < DateIndex(d2)

\* util.TimeFullMonth: the first and the last day of the month of date.
TimeFullMonth(date) == <<(<<date[1], 1>>), (<<date[1], DaysIn(date[1])>>)>>

\* The identifier the server holds for a day it has a record of.
ServerUUID(d) == [origin |-> "server", n |-> 0, for |-> d]

\* Attendance days the server lists for a window, out of the days `has`
\* it holds a record of.
CalendarDays(startDate, endDate, has) ==
    {[ID |-> ServerUUID(d), Day |-> DateOnly(d)] :
        d \in {x \in has : ~Before(x, startDate) /\ ~Before(endDate, x)}}

\* url.Values{} and the two Set calls of the later GetAttendanceCalendar.
MyCalendarQueryParams(startDate, endDate) ==
    ValuesSet(ValuesSet(MadeValues, "start_date", DateOnly(startDate)),
              "end_date", DateOnly(endDate))

\* Client.GetMyAttendanceCalendar -> GetAttendanceCalendar (later file), as
\* a function of the server's answer: the error, the requests sent and the
\* calendar's attendance days.
MyAttendanceCalendar(state, employee, startDate, endDate, out, has) ==
    IF assertLoggedIn(state) # "nil"
      THEN [err |-> assertLoggedIn(state), reqs |-> <<>>, outs |-> <<>>, days |-> {}]
      ELSE [err |-> IF out = "ok" THEN "nil" ELSE out,
            reqs |-> <<CalendarRequest(employee,
                                       MyCalendarQueryParams(startDate, endDate))>>,
            outs |-> <<out>>,
            days |-> IF out = "ok" THEN CalendarDays(startDate, endDate, has) ELSE {}]

\* A cache entry: the key is absent, or maps to a nil pointer (<<>>), or to
\* an identifier (<<id>>).
Absent == [ok |-> FALSE, ptr |-> <<>>]
Undefined == [ok |-> TRUE, ptr |-> <<>>]
Known(id) == [ok |-> TRUE, ptr |-> <<id>>]

SameMonthDates(d) == {x \in Dates : x[1] = d[1]}

\* cacheDayIDs without its second loop: only the listed days are cached.
cacheDayIDsListedOnly(cache, days, startDate, endDate) ==
    [d \in Dates |->
       IF \E day \in days : day.Day = DateOnly(d)
         THEN Known((CHOOSE day \in days : day.Day = DateOnly(d)).ID)
         ELSE cache[d]]

\* cacheDayIDs whose second loop marks every day of the window, listed or not.
cacheDayIDsMarksAll(cache, days, startDate, endDate) ==
    [d \in Dates |->
       IF ~Before(d, startDate) /\ ~Before(endDate, d) THEN Undefined
       ELSE IF \E day \in days : day.Day = DateOnly(d)
         THEN Known((CHOOSE day \in days : day.Day = DateOnly(d)).ID)
         ELSE cache[d]]

\* Client.cacheDayIDs: the listed days get their identifier, then every day
\* from startDate to endDate that has no key gets the nil marker.
cacheDayIDs(cache, days, startDate, endDate) ==
    LET known == [d \in Dates |->
                     IF \E day \in days : day.Day = DateOnly(d)
                       THEN Known((CHOOSE day \in days : day.Day = DateOnly(d)).ID)
                       ELSE cache[d]]
    IN [d \in Dates |->
          IF ~Before(d, startDate) /\ ~Before(endDate, d) /\ ~known[d].ok
            THEN Undefined ELSE known[d]]

\* GetDayUUID that reports nil after a fetch, whatever the fetch cached.
GetDayUUIDNilAfterFetch(cache, state, employee, date, out, has) ==
    IF cache[date].ok
      THEN [err |-> "nil", ptr |-> cache[date].ptr, cache |-> cache, reqs |-> <<>>,
            outs |-> <<>>, days |-> {}]
      ELSE LET win == TimeFullMonth(date)
               cal == MyAttendanceCalendar(state, employee, win[1], win[2], out, has)
               filled == cacheDayIDs(cache, cal.days, win[1], win[2])
           IN IF cal.err # "nil"
                THEN [err |-> cal.err, ptr |-> <<>>, cache |-> cache, reqs |-> cal.reqs,
                      outs |-> cal.outs, days |-> {}]
                ELSE [err |-> "nil", ptr |-> <<>>, cache |-> filled,
                      reqs |-> cal.reqs, outs |-> cal.outs, days |-> cal.days]

\* Client.GetDayUUID: cache hit, or one calendar query for the full month.
GetDayUUID(cache, state, employee, date, out, has) ==
    IF cache[date].ok
      THEN [err |-> "nil", ptr |-> cache[date].ptr, cache |-> cache, reqs |-> <<>>,
            outs |-> <<>>, days |-> {}]
      ELSE LET win == TimeFullMonth(date)
               cal == MyAttendanceCalendar(state, employee, win[1], win[2], out, has)
               filled == cacheDayIDs(cache, cal.days, win[1], win[2])
           IN IF cal.err # "nil"
                THEN [err |-> cal.err, ptr |-> <<>>, cache |-> cache, reqs |-> cal.reqs,
                      outs |-> cal.outs, days |-> {}]
                ELSE [err |-> "nil", ptr |-> filled[date].ptr, cache |-> filled,
                      reqs |-> cal.reqs, outs |-> cal.outs, days |-> cal.days]

\* GetOrNewDayUUID that returns the new identifier without storing it.
GetOrNewDayUUIDNoStore(cache, count, state, employee, date, out, has) ==
    LET got == GetDayUUID(cache, state, employee, date, out, has) IN
    IF got.err # "nil"
      THEN [err |-> got.err, id |-> UUIDNil, cache |-> got.cache, reqs |-> got.reqs, outs |-> got.outs,
            minted |-> FALSE, count |-> count, days |-> got.days]
    ELSE IF got.ptr # <<>>
      THEN [err |-> "nil", id |-> got.ptr[1], cache |-> got.cache, reqs |-> got.reqs, outs |-> got.outs,
            minted |-> FALSE, count |-> count, days |-> got.days]
    ELSE [err |-> "nil", id |-> DayUUIDNew(date, count + 1), cache |-> got.cache,
          reqs |-> got.reqs, outs |-> got.outs, minted |-> TRUE, count |-> count + 1, days |-> got.days]

\* GetOrNewDayUUID that makes a new identifier whatever the lookup found.
GetOrNewDayUUIDAlwaysNew(cache, count, state, employee, date, out, has) ==
    LET got == GetDayUUID(cache, state, employee, date, out, has) IN
    IF got.err # "nil"
      THEN [err |-> got.err, id |-> UUIDNil, cache |-> got.cache, reqs |-> got.reqs, outs |-> got.outs,
            minted |-> FALSE, count |-> count, days |-> got.days]
    ELSE [err |-> "nil", id |-> DayUUIDNew(date, count + 1),
          cache |-> [got.cache EXCEPT ![date] = Known(DayUUIDNew(date, count + 1))],
          reqs |-> got.reqs, outs |-> got.outs, minted |-> TRUE, count |-> count + 1, days |-> got.days]

\* Client.GetOrNewDayUUID: the looked-up identifier, or a new one that is
\* stored in the cache.  `count` is the number of identifiers made for the
\* date so far.
GetOrNewDayUUID(cache, count, state, employee, date, out, has) ==
    LET got == GetDayUUID(cache, state, employee, date, out, has) IN
    IF got.err # "nil"
      THEN [err |-> got.err, id |-> UUIDNil, cache |-> got.cache, reqs |-> got.reqs, outs |-> got.outs,
            minted |-> FALSE, count |-> count,
            days |-> got.days]
    ELSE IF got.ptr # <<>>
      THEN [err |-> "nil", id |-> got.ptr[1], cache |-> got.cache, reqs |-> got.reqs, outs |-> got.outs,
            minted |-> FALSE, count |-> count,
            days |-> got.days]
    ELSE [err |-> "nil", id |-> DayUUIDNew(date, count + 1),
          cache |-> [got.cache EXCEPT ![date] = Known(DayUUIDNew(date, count + 1))],
          reqs |-> got.reqs, outs |-> got.outs, minted |-> TRUE, count |-> count + 1,
            days |-> got.days]

\* Client.GetMyAttendanceCalendar called by the user (later file).
CallGetMyAttendanceCalendar(startDate, endDate) ==
    /\ ~crashed
    /\ \E out \in HTTPOutcomes :
       \E has \in (IF out = "ok" /\ assertLoggedIn(authState) = "nil"
                     THEN {{}, {startDate}, Dates} ELSE {{}}) :
         LET cal == MyAttendanceCalendar(authState, employeeID, startDate, endDate,
                                         out, has)
         IN last' = Answered(Call("GetMyAttendanceCalendar", authState, cal.err,
                                  cal.reqs, IF cal.err = "nil" THEN <<cal.days>> ELSE <<>>,
                                  <<startDate, endDate>>),
                             IF cal.reqs = <<>> THEN <<>> ELSE <<out>>)
    /\ UNCHANGED <<configVars, hostVars, credentials, write, session, uuidCount, crashed, cacheVars>>

\* Bookkeeping shared by the calls that go through the day-ID cache: r is
\* the result of GetOrNewDayUUID for date.
CacheStep(date, r, id) ==
    /\ dayIDCache' = r.cache
    /\ queried' = IF Len(r.reqs) > 0 THEN queried \cup {date[1]} ELSE queried
    /\ listed' = listed \cup {d \in Dates : \E day \in r.days : day.Day = DateOnly(d)}
    /\ mintCount' = [mintCount EXCEPT ![date] = r.count]
    /\ returned' = IF id # <<>> /\ returned[date] = <<>>
                     THEN [returned EXCEPT ![date] = id] ELSE returned

\* The calendar is asked only on a cache miss of a logged-in session: the
\* outcomes of that request, and the days of the month the server may then
\* hold a record of.
QueryOutcomes(date) ==
    IF dayIDCache[date].ok \/ assertLoggedIn(authState) # "nil"
      THEN {"ok"} ELSE CacheOutcomes
MonthDays(date, out) ==
    IF dayIDCache[date].ok \/ assertLoggedIn(authState) # "nil" \/ out # "ok"
      THEN {{}} ELSE SUBSET {d \in Dates : d[1] = date[1]}

\* Client.GetDayUUID called by the user: it looks up and never mints.
CallGetDayUUID(date) ==
    /\ ~crashed
    /\ \E out \in QueryOutcomes(date) : \E has \in MonthDays(date, out) :
         LET got == GetDayUUID(dayIDCache, authState, employeeID, date, out, has)
         IN /\ dayIDCache' = got.cache
            /\ queried' = IF Len(got.reqs) > 0 THEN queried \cup {date[1]} ELSE queried
            /\ listed' = listed \cup {d \in Dates : \E day \in got.days : day.Day = DateOnly(d)}
            /\ last' = Answered(Call("GetDayUUID", authState, got.err, got.reqs,
                                     IF got.err = "nil" THEN <<got.ptr>> ELSE <<>>,
                                     <<date>>), got.outs)
    /\ UNCHANGED <<configVars, hostVars, credentials, write, session, uuidCount, crashed, periods, mintCount, returned,
                   failedSubmit>>

\* Client.GetOrNewDayUUID called by the user.
CallGetOrNewDayUUID(date) ==
    /\ ~crashed
    /\ \E out \in QueryOutcomes(date) : \E has \in MonthDays(date, out) :
         LET r == GetOrNewDayUUID(dayIDCache, mintCount[date], authState, employeeID,
                                  date, out, has)
             id == IF r.err = "nil" THEN <<r.id>> ELSE <<>>
         IN /\ CacheStep(date, r, id)
            /\ last' = [Call("GetOrNewDayUUID", authState, r.err, r.reqs, id, <<date>>)
                          EXCEPT !.minted = r.minted, !.outs = r.outs]
    /\ UNCHANGED <<configVars, hostVars, credentials, write, session, uuidCount, crashed, periods, failedSubmit>>

\* time.Time.Round(time.Second): to the nearest second, halves up.
RoundToSecond(t) ==
    [t EXCEPT !.ticks = ((2 * t.ticks + TicksPerSecond) \div (2 * TicksPerSecond))
                          * TicksPerSecond]

\* time.Time.Truncate(time.Second): down to a whole second of absolute time.
Truncate(t) == [t EXCEPT !.ticks = t.ticks - (t.ticks % TicksPerSecond)]

\* time.Time.UTC(): the same instant, shown in UTC.
ToUTC(t) == [t EXCEPT !.zone = "UTC"]

\* json.Marshal of a time.Time (RFC 3339 with the fraction, if any).
MarshalTime(t) ==
    [sec |-> WallTicks(t) \div TicksPerSecond, frac |-> WallTicks(t) % TicksPerSecond,
     offset |-> IF t.zone = "UTC" THEN "Z" ELSE "+local"]

PeriodTypes == {"work", "break"}
Periods == {p \in [ID : {UUIDNil, GivenUUID}, PeriodType : PeriodTypes \cup {""},
                   Start : Times, End : Times] : p.Start.ticks <= p.End.ticks}

\* Number of periods among the first k that have no identifier.
RECURSIVE NilIDs(_, _)
NilIDs(ps, k) ==
    IF k = 0 THEN 0
    ELSE NilIDs(ps, k - 1) + (IF ps[k].ID = UUIDNil THEN 1 ELSE 0)

\* The loop body without the default of lines 254-256: an unset type stays unset.
NormalizePeriodNoDefault(p, newID) ==
    [ID |-> IF p.ID = UUIDNil THEN newID ELSE p.ID,
     PeriodType |-> p.PeriodType,
     Start |-> ToUTC(Truncate(p.Start)),
     End |-> ToUTC(Truncate(p.End))]

\* The loop of SetAttendance over the ps: identifier, whole-second
\* UTC start and end, default type.  `count` uuid.New() calls came before.
NormalizePeriod(p, newID) ==
    [ID |-> IF p.ID = UUIDNil THEN newID ELSE p.ID,
     PeriodType |-> IF p.PeriodType = "" THEN "work" ELSE p.PeriodType,
     Start |-> ToUTC(Truncate(p.Start)),
     End |-> ToUTC(Truncate(p.End))]

NormalizePeriods(ps, count) ==
    [k \in 1..Len(ps) |->
        NormalizePeriod(ps[k], UUIDNew(count + NilIDs(ps, k)))]

\* json.Marshal of the request body.
MarshalPeriods(ps) ==
    [k \in 1..Len(ps) |->
        [id |-> ps[k].ID, period_type |-> ps[k].PeriodType,
         start |-> MarshalTime(ps[k].Start), end |-> MarshalTime(ps[k].End)]]

\* A SetAttendance that forgets the day's identifier when the PUT fails.
CacheAfterSubmitRollback(cache, date, put) ==
    IF put # "ok" THEN [cache EXCEPT ![date] = Undefined] ELSE cache

\* The cache after the PUT was answered: SetAttendance returns the error or
\* nil and writes nothing back, whatever the answer.
CacheAfterSubmit(cache, date, put) == cache

\* Client.SetAttendance.  The loop edits the caller's slice in place, before
\* the day identifier is looked up.
SetAttendance(date) ==
    /\ ~crashed
    /\ IF assertLoggedIn(authState) # "nil"
         THEN /\ last' = Call("SetAttendance", authState, assertLoggedIn(authState),
                              <<>>, <<>>, <<date, periods>>)
              /\ UNCHANGED <<uuidCount, cacheVars>>
         ELSE \E out \in QueryOutcomes(date) : \E has \in MonthDays(date, out) :
                LET n == NilIDs(periods, Len(periods))
                    normal == NormalizePeriods(periods, uuidCount)
                    body == [employee_id |-> employeeID,
                             periods |-> MarshalPeriods(normal)]
                    r == GetOrNewDayUUID(dayIDCache, mintCount[date], authState,
                                         employeeID, date, out, has)
                    req == [method |-> "PUT",
                            path |-> <<"/api/v1/attendances/days", r.id>>,
                            body |-> body]
                IN /\ uuidCount + n <= MaxUUID
                   /\ uuidCount' = uuidCount + n
                   /\ periods' = normal
                   /\ IF r.err # "nil"
                        THEN /\ CacheStep(date, r, <<>>)
                             /\ last' = Answered(Call("SetAttendance", authState, r.err,
                                                      r.reqs, <<>>, <<date, periods>>),
                                                 r.outs)
                             /\ failedSubmit' = failedSubmit
                        ELSE \E put \in CacheOutcomes :
                             /\ CacheStep(date,
                                          [r EXCEPT !.cache =
                                             CacheAfterSubmit(r.cache, date, put)],
                                          <<r.id>>)
                             /\ last' = [Call("SetAttendance", authState,
                                              IF put = "ok" THEN "nil" ELSE put,
                                              r.reqs \o <<req>>, <<>>, <<date, periods>>)
                                           EXCEPT !.minted = r.minted,
                                                  !.outs = r.outs \o <<put>>]
                             /\ failedSubmit' =
                                  IF put # "ok" /\ r.id.origin = "client"
                                    THEN failedSubmit \cup {date} ELSE failedSubmit
    /\ UNCHANGED <<configVars, hostVars, credentials, write, session, crashed>>

\* ------------------------------------- SetAttendance, one step at a time
\* Where a SetAttendance call stands: before the logged-in check (Idle),
\* past it (Authenticated), holding the day identifier (ReadyToSubmit), or
\* returned with nil (Committed) or with an error (Failed).
TerminalPcs == {"Committed", "Failed"}

NewWrite(date, state) ==
    [pc |-> "Idle", date |-> date, pre |-> state, err |-> "nil", reqs |-> <<>>,
     outs |-> <<>>, id |-> UUIDNil, minted |-> FALSE, body |-> <<>>]

IdleWrite == NewWrite(OneDate, "LoggedOut")

\* The call record of a SetAttendance call that returned.
WriteCall(w) ==
    [Call("SetAttendance", w.pre, w.err, w.reqs, <<>>, <<w.date>>)
       EXCEPT !.minted = w.minted, !.outs = w.outs]

\* A SetAttendance that goes on to the submit whatever GetOrNewDayUUID returned.
AfterResolveIgnoresError(err) == "ReadyToSubmit"

\* personio.schema.json:268-271: the error of GetOrNewDayUUID ends the call.
AfterResolve(err) == IF err # "nil" THEN "Failed" ELSE "ReadyToSubmit"

\* personio.schema.json:278-285: the error of RawJSON or ParseResponseJSON,
\* or nil, is what the call returns.
AfterSubmit(put) == IF put = "ok" THEN "Committed" ELSE "Failed"

\* SetAttendance is called: the logged-in check of lines 244-246.
WriteBegin(date) ==
    /\ ~crashed
    /\ write.pc \in TerminalPcs \cup {"Idle"}
    /\ LET w == NewWrite(date, authState) IN
       IF assertLoggedIn(authState) # "nil"
         THEN /\ write' = [w EXCEPT !.pc = "Failed", !.err = assertLoggedIn(authState)]
              /\ last' = WriteCall(write')
         ELSE /\ write' = [w EXCEPT !.pc = "Authenticated"]
              /\ last' = last
    /\ UNCHANGED <<configVars, hostVars, credentials, session, uuidCount, crashed, cacheVars>>

\* Lines 248-271: the loop over the periods, the body, GetOrNewDayUUID.
WriteResolve ==
    /\ ~crashed
    /\ write.pc = "Authenticated"
    /\ \E out \in QueryOutcomes(write.date) : \E has \in MonthDays(write.date, out) :
         LET n == NilIDs(periods, Len(periods))
             normal == NormalizePeriods(periods, uuidCount)
             r == GetOrNewDayUUID(dayIDCache, mintCount[write.date], authState,
                                  employeeID, write.date, out, has)
         IN /\ uuidCount + n <= MaxUUID
            /\ uuidCount' = uuidCount + n
            /\ periods' = normal
            /\ CacheStep(write.date, r, IF r.err = "nil" THEN <<r.id>> ELSE <<>>)
            /\ write' = [write EXCEPT !.pc = AfterResolve(r.err), !.err = r.err,
                                      !.reqs = r.reqs, !.outs = r.outs, !.id = r.id,
                                      !.minted = r.minted,
                                      !.body = [employee_id |-> employeeID,
                                                periods |-> MarshalPeriods(normal)]]
            /\ last' = IF write'.pc \in TerminalPcs THEN WriteCall(write') ELSE last
    /\ UNCHANGED <<configVars, hostVars, credentials, session, crashed, failedSubmit>>

\* Lines 273-285: the PUT under the day identifier and its answer.
WriteSubmit ==
    /\ ~crashed
    /\ write.pc = "ReadyToSubmit"
    /\ \E put \in CacheOutcomes :
         LET req == [method |-> "PUT",
                     path |-> <<"/api/v1/attendances/days", write.id>>,
                     body |-> write.body]
         IN /\ write' = [write EXCEPT !.pc = AfterSubmit(put),
                                      !.err = IF put = "ok" THEN "nil" ELSE put,
                                      !.reqs = @ \o <<req>>, !.outs = @ \o <<put>>]
            /\ last' = WriteCall(write')
            /\ dayIDCache' = CacheAfterSubmit(dayIDCache, write.date, put)
            /\ failedSubmit' = IF put # "ok" /\ write.id.origin = "client"
                                 THEN failedSubmit \cup {write.date} ELSE failedSubmit
    /\ UNCHANGED <<configVars, hostVars, credentials, session, uuidCount, crashed, periods, queried, listed, mintCount,
                   returned>>

\* ------------------------------ GetOrNewDayUUID in a concurrent host
\* Each caller runs GetOrNewDayUUID once, one statement at a time.  The host
\* guards the cache with a mutual-exclusion boundary: a caller enters when
\* no other caller is inside and leaves when its call returns.
Callers == 1..NumCallers

IdleCaller == [pc |-> "idle", date |-> OneDate, ptr |-> <<>>, id |-> UUIDNil,
               err |-> "nil", asked |-> FALSE, fetched |-> FALSE, minted |-> FALSE]

\* A host without the boundary: every caller may enter at any time.
CanEnterAlways(holder) == TRUE

\* The boundary is free.
CanEnter(holder) == holder = 0

\* A caller calls GetOrNewDayUUID(date) and enters the critical section.
Enter(c, date) ==
    /\ ~crashed
    /\ callers[c].pc = "idle"
    /\ CanEnter(lock)
    /\ lock' = c
    /\ callers' = [callers EXCEPT ![c] = [IdleCaller EXCEPT !.pc = "lookup",
                                                            !.date = date]]
    /\ UNCHANGED <<configVars, credentials, write, session, uuidCount, crashed, cacheVars, last>>

\* personio.schema.json:318-324: the cache lookup; on a miss the calendar
\* request for the full month goes out, unless the session is not logged in.
Lookup(c) ==
    /\ ~crashed
    /\ callers[c].pc = "lookup"
    /\ LET d == callers[c].date IN
       IF dayIDCache[d].ok
         THEN /\ callers' = [callers EXCEPT ![c].pc = "found",
                                            ![c].ptr = dayIDCache[d].ptr]
              /\ lock' = lock
              /\ queried' = queried
         ELSE IF assertLoggedIn(authState) # "nil"
         THEN /\ callers' = [callers EXCEPT ![c].pc = "done",
                                            ![c].err = assertLoggedIn(authState)]
              /\ lock' = 0
              /\ queried' = queried
         ELSE /\ callers' = [callers EXCEPT ![c].pc = "fetching", ![c].asked = TRUE]
              /\ lock' = lock
              /\ queried' = queried \cup {d[1]}
    /\ UNCHANGED <<configVars, credentials, write, session, uuidCount, crashed, last, dayIDCache,
                   periods, listed, mintCount, returned, failedSubmit>>

\* personio.schema.json:324-333: the calendar answer; an error ends the
\* call, a calendar is cached by cacheDayIDs and the entry of the date is read.
Receive(c) ==
    /\ ~crashed
    /\ callers[c].pc = "fetching"
    /\ \E out \in CacheOutcomes :
       \E has \in (IF out = "ok" THEN SUBSET SameMonthDates(callers[c].date) ELSE {{}}) :
         LET d == callers[c].date
             win == TimeFullMonth(d)
             cal == MyAttendanceCalendar(authState, employeeID, win[1], win[2], out, has)
             filled == cacheDayIDs(dayIDCache, cal.days, win[1], win[2])
         IN IF cal.err # "nil"
              THEN /\ callers' = [callers EXCEPT ![c].pc = "done", ![c].err = cal.err]
                   /\ lock' = 0
                   /\ UNCHANGED <<dayIDCache, listed>>
              ELSE /\ callers' = [callers EXCEPT ![c].pc = "found",
                                                 ![c].fetched = TRUE,
                                                 ![c].ptr = filled[d].ptr]
                   /\ lock' = lock
                   /\ dayIDCache' = filled
                   /\ listed' = listed \cup
                        {x \in Dates : \E day \in cal.days : day.Day = DateOnly(x)}
    /\ UNCHANGED <<configVars, credentials, write, session, uuidCount, crashed, last, periods,
                   queried, mintCount, returned, failedSubmit>>

\* personio.schema.json:298-306: the identifier found, or a new one that is
\* stored in the cache; the call returns and the caller leaves.
Finish(c) ==
    /\ ~crashed
    /\ callers[c].pc = "found"
    /\ LET d == callers[c].date
           newID == DayUUIDNew(d, mintCount[d] + 1)
       IN IF callers[c].ptr # <<>>
            THEN /\ callers' = [callers EXCEPT ![c].pc = "done",
                                               ![c].id = callers[c].ptr[1]]
                 /\ UNCHANGED <<dayIDCache, mintCount>>
            ELSE /\ callers' = [callers EXCEPT ![c].pc = "done", ![c].id = newID,
                                               ![c].minted = TRUE]
                 /\ dayIDCache' = [dayIDCache EXCEPT ![d] = Known(newID)]
                 /\ mintCount' = [mintCount EXCEPT ![d] = @ + 1]
    /\ lock' = 0
    /\ UNCHANGED <<configVars, credentials, write, session, uuidCount, crashed, last, periods,
                   queried, listed, returned, failedSubmit>>

\* ---------------------------------------------------- config.OutFormat
\* OutFormatPretty, OutFormatJSON, OutFormatYAML.
OutFormats == {"pretty", "json", "yaml"}

\* Strings a flag or a configuration file may hold for the output format.
FormatValues == OutFormats \cup {"", "JSON", "Pretty", "yml", "xml", "text", " json",
                                  "yaml ", "prettyjson", "pretty,json", "out-format"}

\* A []byte holding the text of a configuration value, and string(text).
FormatTexts == {[bytes |-> v] : v \in FormatValues}
StringOf(text) == text.bytes

NoSet == [op |-> "none", value |-> "", err |-> "nil", prev |-> "", everSet |-> FALSE]

\* A Set that stores the value before it looks at it.
SetFormatStoresFirst(f, value) ==
    IF value \in OutFormats THEN [f |-> value, err |-> "nil"]
    ELSE [f |-> value, err |-> "unknown output format"]

\* OutFormat.Set: the switch over the three constants; the default case
\* returns the error and assigns nothing.
SetFormat(f, value) ==
    CASE value = "pretty" -> [f |-> "pretty", err |-> "nil"]
      [] value = "json" -> [f |-> "json", err |-> "nil"]
      [] value = "yaml" -> [f |-> "yaml", err |-> "nil"]
      [] OTHER -> [f |-> f, err |-> "unknown output format"]

\* (*OutFormat).Set called with a flag value.
Set(value) ==
    /\ LET r == SetFormat(outFormat, value)
       IN /\ outFormat' = r.f
          /\ setResult' = [op |-> "Set", value |-> value, err |-> r.err,
                           prev |-> outFormat,
                           everSet |-> setResult.everSet \/ r.err = "nil"]
    /\ UNCHANGED <<credentials, write, hostVars, session, uuidCount, crashed,
                   cacheVars, last>>

\* (*OutFormat).UnmarshalText: Set(string(text)).
UnmarshalText(text) ==
    /\ LET r == SetFormat(outFormat, StringOf(text))
       IN /\ outFormat' = r.f
          /\ setResult' = [op |-> "UnmarshalText", value |-> StringOf(text),
                           err |-> r.err, prev |-> outFormat,
                           everSet |-> setResult.everSet \/ r.err = "nil"]
    /\ UNCHANGED <<credentials, write, hostVars, session, uuidCount, crashed,
                   cacheVars, last>>

\* ------------------------------------------------------------ specification
\* A period that is already whole-second UTC and has an identifier.
SamplePeriod == [ID |-> GivenUUID, PeriodType |-> "work",
                 Start |-> [ticks |-> 0, zone |-> "UTC"],
                 End |-> [ticks |-> TicksPerSecond, zone |-> "UTC"]]

\* The state after personio.New, with the periods the caller holds.
InitWith(ps) ==
    /\ authState = "LoggedOut"
    /\ sessionCookie = ""
    /\ employeeID = ""
    /\ csrfToken = NoToken
    /\ dayIDCache = [d \in Dates |-> Absent]
    /\ uuidCount = 0
    /\ crashed = FALSE
    /\ deviceKnown \in BOOLEAN
    /\ last = NoCall
    /\ periods = ps
    /\ queried = {}
    /\ listed = {}
    /\ mintCount = [d \in Dates |-> 0]
    /\ returned = [d \in Dates |-> <<>>]
    /\ failedSubmit = {}
    /\ write = IdleWrite
    /\ credentials = FullCredentials
    /\ lock = 0
    /\ callers = [c \in Callers |-> IdleCaller]
    /\ outFormat = ""
    /\ setResult = NoSet

Init == InitWith(<<SamplePeriod>>)

\* Times, periods and credentials the callers of the model pass.
WorkTimes == {t \in Times : t.ticks \in {0, MaxTick}}
\* Date windows from the first day of a month to a day not before it, and
\* working times whose start is not after the end.
Windows == {w \in Dates \X Dates : w[1][2] = 1 /\ ~Before(w[2], w[1])}
WorkWindows == {w \in WorkTimes \X WorkTimes : w[1].ticks <= w[2].ticks}

\* The session and the operations of pkg/personio/attendance.go.  None of
\* them reads or writes the day-ID cache.
Next ==
    \/ \E cred \in Credentials : SupplyCredentials(cred)
    \/ Login(credentials)
    \/ AssertLoggedIn
    \/ \E e \in Employees, w \in Windows : GetAttendanceCalendar(e, w[1], w[2])
    \/ \E w \in Windows : GetWorkingTimes(w[1], w[2])
    \/ \E w \in WorkWindows : SetWorkingTimes(w[1], w[2])
    \/ \E w \in Windows : CallGetMyAttendanceCalendar(w[1], w[2])

Spec == Init /\ [][Next]_vars

\* The operations that go through the day-ID cache, on a session that logs
\* in with complete credentials.  They read the session and never write it.
CacheNext ==
    \/ Login(FullCredentials)
    \/ \E d \in Dates : CallGetOrNewDayUUID(d)
    \/ \E d \in Dates : SetAttendance(d)

CacheSpec == Init /\ [][CacheNext]_vars

\* SetAttendance for one date, the caller holding any one period of the
\* bounded domain.
PeriodInit == \E p \in Periods : InitWith(<<p>>)

PeriodNext ==
    \/ Login(FullCredentials)
    \/ SetAttendance(OneDate)

PeriodSpec == PeriodInit /\ [][PeriodNext]_vars

\* Lookups through the day-ID cache with and without minting.
RefreshNext ==
    \/ Login(FullCredentials)
    \/ \E d \in Dates : CallGetDayUUID(d)
    \/ \E d \in Dates : CallGetOrNewDayUUID(d)

RefreshSpec == Init /\ [][RefreshNext]_vars

\* SetAttendance run one step at a time by a single caller: nothing else
\* runs while a call is under way.
WriteNext ==
    \/ write.pc \in TerminalPcs \cup {"Idle"} /\ Login(FullCredentials)
    \/ \E d \in Dates : WriteBegin(d)
    \/ WriteResolve
    \/ WriteSubmit

WriteSpec == Init /\ [][WriteNext]_vars

\* Concurrent callers of GetOrNewDayUUID in a host that guards the cache and
\* the session: login runs only while no caller is inside.
ConcNext ==
    \/ lock = 0 /\ Login(FullCredentials)
    \/ \E c \in Callers, d \in Dates : Enter(c, d)
    \/ \E c \in Callers : Lookup(c)
    \/ \E c \in Callers : Receive(c)
    \/ \E c \in Callers : Finish(c)

ConcSpec == Init /\ [][ConcNext]_vars

\* The output format set from a flag and from the configuration file.
FormatNext ==
    \/ \E v \in FormatValues : Set(v)
    \/ \E t \in FormatTexts : UnmarshalText(t)

FormatSpec == Init /\ [][FormatNext]_vars

\* ------------------------------------------------------------------ claims
AttendanceOps == {"GetAttendanceCalendar", "GetWorkingTimes", "SetWorkingTimes"}

\* C1: the logged-in check on a LoggedOut session, called alone or as the
\* first statement of GetAttendanceCalendar, returns the NotLoggedIn error,
\* sends no request and leaves the session LoggedOut.
C1_LoggedOutFailsFast ==
    (last.op \in {"assertLoggedIn", "GetAttendanceCalendar"} /\ last.pre = "LoggedOut")
        => /\ last.err = "NotLoggedIn"
           /\ last.reqs = <<>>
           /\ authState = "LoggedOut"
           /\ sessionCookie = "" /\ employeeID = ""
           /\ ~crashed

C1_Witness ==
    /\ last.op = "GetAttendanceCalendar"
    /\ last.pre = "LoggedOut"
    /\ last.err = "NotLoggedIn"
    /\ last.reqs = <<>>

\* C2: GetAttendanceCalendar, GetWorkingTimes and SetWorkingTimes send a
\* request only on a LoggedIn session; in LoggedOut and in
\* AwaitingDeviceChallenge they return the error of the logged-in check and
\* no request is built or sent.
C2_NoRequestUnlessLoggedIn ==
    last.op \in AttendanceOps
        => /\ last.reqs # <<>> => last.pre = "LoggedIn"
           /\ last.pre # "LoggedIn" => (last.err = "NotLoggedIn" /\ last.ret = <<>>)

C2_Witness ==
    /\ last.op = "SetWorkingTimes"
    /\ last.pre = "AwaitingDeviceChallenge"
    /\ last.err = "NotLoggedIn"
    /\ last.reqs = <<>>
    /\ uuidCount = 0

\* C3: a login answered by a new-device challenge leaves the session in
\* AwaitingDeviceChallenge with a CSRF token, cookie or not, and the session
\* leaves AwaitingDeviceChallenge for LoggedIn only by a login whose
\* credentials carry the CSRF token and the email token.
C3_ChallengeNeverLogsIn ==
    [][/\ (last'.op = "Login" /\ last'.ret[1].kind = "NewDevice")
            => (authState' = "AwaitingDeviceChallenge" /\ csrfToken' # NoToken)
       /\ (authState = "AwaitingDeviceChallenge" /\ authState' = "LoggedIn")
            => /\ last'.op = "Login"
               /\ last'.args[1].csrfToken # NoToken
               /\ last'.args[1].emailToken # NoToken]_vars

C3_Witness ==
    /\ last.op = "Login"
    /\ last.ret[1].kind = "NewDevice"
    /\ last.ret[1].cookie
    /\ authState = "AwaitingDeviceChallenge"
    /\ csrfToken # NoToken

\* C8: GetAttendanceCalendar(employeeID, startDate, endDate) on a LoggedIn
\* session sends one request whose start_date is startDate and whose
\* end_date is endDate.
C8_RequestsTheWindow ==
    (last.op = "GetAttendanceCalendar" /\ last.pre = "LoggedIn")
        => /\ Len(last.reqs) = 1
           /\ last.reqs[1].start_date = DateOnly(last.args[2])
           /\ last.reqs[1].end_date = DateOnly(last.args[3])

\* C9: GetAttendanceCalendar on a LoggedIn session reaches the HTTP request
\* and returns a calendar or an error; it never panics.
C9_ReturnsCalendarOrError ==
    (last.op = "GetAttendanceCalendar" /\ last.pre = "LoggedIn")
        => /\ last.err # "panic"
           /\ ~crashed
           /\ last.reqs # <<>>

\* ---------------------------------------------------- claims on the cache
CacheOps == {"GetOrNewDayUUID", "SetAttendance"}

\* The calendar queries among the requests of a call that ask for month m.
CalendarQueries(call, m) ==
    {i \in 1..Len(call.reqs) :
        call.reqs[i].method = "GET" /\ call.reqs[i].start_date[1] = m}

SameMonth(d) == {x \in Dates : x[1] = d[1]}

\* The PUT of a SetAttendance call that got as far as the submit.
Submitted(call) ==
    /\ call.op = "SetAttendance"
    /\ call.reqs # <<>>
    /\ call.reqs[Len(call.reqs)].method = "PUT"
SubmitOf(call) == call.reqs[Len(call.reqs)]

\* C4 as stated: over the GetOrNewDayUUID calls of a run (made directly or
\* by SetAttendance), a month a calendar query was sent for is never queried
\* again.
C4_AtMostOneQueryPerMonth ==
    [][\A m \in Months :
         (m \in queried /\ last'.op \in CacheOps) => CalendarQueries(last', m) = {}]_vars

\* C4 as amended: once a calendar query for a month has succeeded every date
\* of the month is in the cache, and no later call queries that month; a
\* call sends at most one calendar query.
C4_OneSuccessfulQueryPerMonth ==
    [][\A d \in Dates :
         /\ (dayIDCache[d].ok /\ last'.op \in CacheOps)
               => CalendarQueries(last', d[1]) = {}
         /\ last'.op \in CacheOps => Cardinality(CalendarQueries(last', d[1])) <= 1
         /\ dayIDCache'[d].ok => \A x \in SameMonth(d) : dayIDCache'[x].ok]_vars

C4_Witness ==
    /\ last.op = "GetOrNewDayUUID"
    /\ last.err = "nil"
    /\ last.reqs = <<>>
    /\ \E x \in SameMonth(last.args[1]) :
          x # last.args[1] /\ returned[x] # <<>> /\ x \in listed
    /\ last.args[1][1] \in queried

\* C5: GetOrNewDayUUID returns for a date the identifier it returned for
\* that date the first time, server-assigned or minted.
C5_SameIdentifierEachTime ==
    (last.op = "GetOrNewDayUUID" /\ last.err = "nil")
        => /\ last.ret = returned[last.args[1]]
           /\ last.ret # <<>>
           /\ last.ret[1] # UUIDNil

C5_Witness ==
    /\ last.op = "GetOrNewDayUUID"
    /\ last.err = "nil"
    /\ last.ret[1].origin = "client"
    /\ ~last.minted
    /\ last.ret = returned[last.args[1]]

\* C6: an identifier is minted at most once for a date, and only for a date
\* whose month has been fetched and that no calendar response listed.
C6_MintOncePerDate ==
    [][\A d \in Dates :
         /\ mintCount'[d] <= 1
         /\ mintCount'[d] > mintCount[d]
               => /\ d \notin listed'
                  /\ \A x \in SameMonth(d) : dayIDCache'[x].ok
                  /\ dayIDCache[d] \in {Absent, Undefined}
                  /\ dayIDCache'[d].ptr # <<>>
                  /\ dayIDCache'[d].ptr[1].origin = "client"]_vars

C6_Witness ==
    /\ Submitted(last)
    /\ mintCount[last.args[1]] = 1
    /\ SubmitOf(last).path[2].origin = "client"
    /\ ~last.minted
    /\ Len(last.reqs) = 1

\* C7: when the submit fails after an identifier was minted for the date,
\* the identifier stays in the cache, and a later SetAttendance for the date
\* submits under that identifier and mints none.
C7_MintedIdentifierSurvivesFailure ==
    [][\A d \in Dates :
         /\ d \in failedSubmit'
               => /\ dayIDCache'[d].ptr # <<>>
                  /\ dayIDCache'[d].ptr[1].origin = "client"
         /\ d \in failedSubmit
               => /\ dayIDCache'[d] = dayIDCache[d]
                  /\ mintCount'[d] = mintCount[d]
                  /\ (Submitted(last') /\ last'.args[1] = d)
                        => SubmitOf(last').path[2] = dayIDCache[d].ptr[1]]_vars

C7_Witness ==
    /\ Submitted(last)
    /\ last.err = "nil"
    /\ last.args[1] \in failedSubmit
    /\ SubmitOf(last).path[2].origin = "client"
    /\ ~last.minted
    /\ mintCount[last.args[1]] = 1

\* ------------------------------------------------- claims on the periods
\* C10: every period SetAttendance submits has its start and end cut down
\* to the whole second and written in UTC, and the start is not after the end.
C10_WholeSecondsUTC ==
    Submitted(last) =>
        LET sent == SubmitOf(last).body.periods
            given == last.args[2]
        IN /\ Len(sent) = Len(given)
           /\ \A k \in 1..Len(sent) :
                /\ sent[k].start.frac = 0 /\ sent[k].end.frac = 0
                /\ sent[k].start.offset = "Z" /\ sent[k].end.offset = "Z"
                /\ sent[k].start.sec = given[k].Start.ticks \div TicksPerSecond
                /\ sent[k].end.sec = given[k].End.ticks \div TicksPerSecond
                /\ sent[k].start.sec <= sent[k].end.sec

C10_Witness ==
    /\ Submitted(last)
    /\ last.args[2][1].Start.ticks = TicksPerSecond - 1
    /\ last.args[2][1].Start.zone = "Local"
    /\ last.args[2][1].End.ticks = TicksPerSecond
    /\ SubmitOf(last).body.periods[1].start = [sec |-> 0, frac |-> 0, offset |-> "Z"]
    /\ SubmitOf(last).body.periods[1].end = [sec |-> 1, frac |-> 0, offset |-> "Z"]

\* C11: every period SetAttendance submits whose type was unset goes out
\* with type work, and one whose type was work or break goes out with that
\* type; the caller's slice holds the same types after the call.
C11_UnsetTypeIsWork ==
    Submitted(last) =>
        LET sent == SubmitOf(last).body.periods
            given == last.args[2]
        IN /\ Len(sent) = Len(given)
           /\ \A k \in 1..Len(sent) :
                /\ given[k].PeriodType = "" => sent[k].period_type = "work"
                /\ given[k].PeriodType \in PeriodTypes
                      => sent[k].period_type = given[k].PeriodType
                /\ periods[k].PeriodType = sent[k].period_type

C11_Witness ==
    /\ Submitted(last)
    /\ last.args[2][1].PeriodType = ""
    /\ SubmitOf(last).body.periods[1].period_type = "work"

\* C12: a login with valid credentials that the server answers with neither
\* a challenge nor a transport failure ends LoggedIn without error, and in
\* every state a LoggedIn session holds a session cookie and an employee
\* identifier.
C12_LoggedInHasCookieAndEmployee ==
    /\ (last.op = "Login" /\ last.args[1].valid
          /\ last.ret[1].kind \notin {"NewDevice", "TransportError"})
            => (authState = "LoggedIn" /\ last.err = "nil")
    /\ authState = "LoggedIn" => (sessionCookie # "" /\ employeeID # "")

C12_Witness ==
    /\ last.op = "Login"
    /\ last.args[1].valid
    /\ last.args[1].csrfToken = NoToken
    /\ last.ret[1].kind = "Success"
    /\ last.pre = "LoggedOut"
    /\ authState = "LoggedIn"
    /\ sessionCookie # "" /\ employeeID = MyEmployee

\* C13: one call of Login, GetAttendanceCalendar, GetWorkingTimes or
\* SetWorkingTimes sends at most one request (Login exactly one), every
\* request is answered once, and a request that failed is reported as the
\* call's error: nothing is sent a second time.
C13_NoAutomaticRetry ==
    last.op \in AttendanceOps \cup {"Login"}
        => /\ Len(last.reqs) <= 1
           /\ Len(last.outs) = Len(last.reqs)
           /\ last.op = "Login" => Len(last.reqs) = 1
           /\ (last.outs # <<>> /\ last.outs[1] \notin {"ok", "Success"})
                 => last.err # "nil"

C13_Witness ==
    /\ last.op = "SetWorkingTimes"
    /\ last.pre = "LoggedIn"
    /\ last.outs = <<"TransportError">>
    /\ Len(last.reqs) = 1
    /\ last.err = "TransportError"

\* C14: when the request of GetAttendanceCalendar (either variant),
\* GetWorkingTimes or SetWorkingTimes is answered by an error of the HTTP
\* executor or of the response parser, the call returns exactly that error
\* and no result value.
C14_ErrorsPropagateUnmodified ==
    (last.op \in AttendanceOps \cup {"GetMyAttendanceCalendar"}
       /\ last.outs # <<>> /\ last.outs[1] # "ok")
        => /\ last.err = last.outs[1]
           /\ last.ret = <<>>
           /\ ~crashed

C14_Witness ==
    /\ last.op = "GetWorkingTimes"
    /\ last.outs = <<"ParseError">>
    /\ last.err = "ParseError"
    /\ last.ret = <<>>

\* C15: SetWorkingTimes on a LoggedIn session sends one POST whose body is
\* one record carrying the identifier just generated (never used by an
\* earlier call) and the session's employee identifier; it returns nil
\* exactly when the response was a success that parsed.
C15_OneFreshRecordPerCall ==
    (last.op = "SetWorkingTimes" /\ last.pre = "LoggedIn")
        => /\ Len(last.reqs) = 1
           /\ last.reqs[1].method = "POST"
           /\ Len(last.reqs[1].body) = 1
           /\ last.reqs[1].body[1].ID = UUIDNew(uuidCount)
           /\ uuidCount >= 1
           /\ last.reqs[1].body[1].EmployeeID = employeeID
           /\ employeeID = MyEmployee
           /\ (last.err = "nil") <=> (last.outs = <<"ok">>)

C15_Witness ==
    /\ last.op = "SetWorkingTimes"
    /\ last.pre = "LoggedIn"
    /\ last.err = "nil"
    /\ uuidCount = 2
    /\ last.reqs[1].body[1].ID = UUIDNew(2)

\* ------------------------------------------------- claims on the refresh
\* A GetDayUUID call whose calendar query came back with a calendar.
Refreshed(call) ==
    call.op = "GetDayUUID" /\ call.reqs # <<>> /\ call.outs = <<"ok">>

\* C16: after a lookup that fetched the month of its date, every day of
\* that month has a cache entry: the server's identifier when the response
\* listed the day, the undefined marker otherwise; the entries of the other
\* month are as before.
C16_RefreshFillsTheMonth ==
    [][Refreshed(last') =>
         \A d \in Dates :
            IF d \in SameMonth(last'.args[1])
              THEN /\ dayIDCache'[d].ok
                   /\ ~dayIDCache[d].ok
                   /\ d \in listed' => dayIDCache'[d] = Known(ServerUUID(d))
                   /\ d \notin listed' => dayIDCache'[d] = Undefined
              ELSE dayIDCache'[d] = dayIDCache[d]]_vars

C16_Witness ==
    /\ Refreshed(last)
    /\ last.args[1] = <<"2023-01", 1>>
    /\ last.ret = << <<>> >>
    /\ dayIDCache[<<"2023-01", 1>>] = Undefined
    /\ dayIDCache[<<"2023-01", 2>>] = Known(ServerUUID(<<"2023-01", 2>>))
    /\ dayIDCache[<<"2023-02", 1>>] = Absent

\* C17: a date a calendar response listed a record for keeps the server's
\* identifier in the cache, no identifier is ever minted for it, and
\* GetOrNewDayUUID returns, and SetAttendance submits under, the server's
\* identifier for it.
C17_ServerIdentifierWins ==
    /\ \A d \in listed :
          dayIDCache[d] = Known(ServerUUID(d)) /\ mintCount[d] = 0
    /\ (last.op = "GetOrNewDayUUID" /\ last.err = "nil" /\ last.args[1] \in listed)
          => (last.ret = <<ServerUUID(last.args[1])>> /\ ~last.minted)
    /\ (Submitted(last) /\ last.args[1] \in listed)
          => SubmitOf(last).path[2] = ServerUUID(last.args[1])

C17_Witness ==
    /\ last.op = "GetOrNewDayUUID"
    /\ last.err = "nil"
    /\ last.reqs = <<>>
    /\ last.args[1] \in listed
    /\ last.ret = <<ServerUUID(last.args[1])>>
    /\ \E x \in SameMonth(last.args[1]) : mintCount[x] = 1

\* --------------------------------------------- claims on the write steps
WriteOrder ==
    {<<"Idle", "Authenticated">>, <<"Idle", "Failed">>,
     <<"Authenticated", "ReadyToSubmit">>, <<"Authenticated", "Failed">>,
     <<"ReadyToSubmit", "Committed">>, <<"ReadyToSubmit", "Failed">>}
      \cup (TerminalPcs \X {"Authenticated", "Failed"})

HasPut(w) == \E i \in 1..Len(w.reqs) : w.reqs[i].method = "PUT"

\* C18: a SetAttendance call goes from the logged-in check to the day
\* identifier to the submit and ends Committed or Failed.  The PUT is sent
\* only from ReadyToSubmit, once, under the identifier the resolution left
\* in the cache; after Committed or Failed the next step is the logged-in
\* check of a new call, which has sent nothing yet.
C18_WriteStepsInOrder ==
    [][write' # write =>
         /\ <<write.pc, write'.pc>> \in WriteOrder
         /\ write.pc \in TerminalPcs
               => (write'.reqs = <<>> /\ write'.id = UUIDNil)
         /\ write'.pc = "Authenticated" => authState = "LoggedIn"
         /\ write'.pc = "ReadyToSubmit"
               => (write'.id # UUIDNil /\ dayIDCache'[write.date] = Known(write'.id))
         /\ HasPut(write')
               => /\ write.pc = "ReadyToSubmit"
                  /\ ~HasPut(write)
                  /\ write.id # UUIDNil
                  /\ write'.reqs[Len(write'.reqs)].path[2] = write.id
                  /\ write'.pc \in TerminalPcs
         /\ write'.pc = "Committed"
               => (HasPut(write') /\ write'.err = "nil")]_vars

C18_Witness ==
    /\ write.pc = "Committed"
    /\ write.minted
    /\ Len(write.reqs) = 2
    /\ write.reqs[1].method = "GET"
    /\ write.reqs[2].method = "PUT"
    /\ write.reqs[2].path[2] = DayUUIDNew(write.date, 1)

\* ------------------------------------------------- claims on the session
\* C19: the session starts LoggedOut; the authentication state changes only
\* in a Login step; a Login that reports an error does not turn a session
\* that was not LoggedIn into a LoggedIn one; the attendance operations
\* leave the whole session as it was; and the caller's credentials change
\* only in a step in which no operation of the client ran.
C19_OnlyLoginChangesTheSession ==
    /\ authState = "LoggedOut"
    /\ [][/\ authState' # authState => (last' # last /\ last'.op = "Login")
          /\ (last' # last /\ last'.op = "Login" /\ last'.err # "nil"
                 /\ authState # "LoggedIn")
                => authState' # "LoggedIn"
          /\ (last' # last /\ last'.op # "Login") => UNCHANGED session
          /\ credentials' # credentials => UNCHANGED <<session, last>>
          /\ last' # last => credentials' = credentials]_vars

C19_Witness ==
    /\ last.op = "Login"
    /\ last.err = "AuthFailure"
    /\ last.pre = "AwaitingDeviceChallenge"
    /\ authState = "AwaitingDeviceChallenge"
    /\ credentials = last.args[1]
    /\ ~credentials.valid

\* ----------------------------------------- claims on concurrent callers
\* No two callers, no mint twice, one identifier per date.
OneMintOneIdentifier ==
    /\ \A d \in Dates : mintCount[d] <= 1
    /\ \A c1 \in Callers, c2 \in Callers :
          (callers[c1].pc = "done" /\ callers[c2].pc = "done"
             /\ callers[c1].err = "nil" /\ callers[c2].err = "nil"
             /\ callers[c1].date = callers[c2].date)
            => callers[c1].id = callers[c2].id

\* C20 as stated: with the lookup and the lazy populate inside one critical
\* section, no two callers send a calendar query for the same month, no
\* date gets two minted identifiers and callers of one date get one
\* identifier.
C20_OneQueryPerMonthUnderLock ==
    /\ \A c1 \in Callers, c2 \in Callers :
          (c1 # c2 /\ callers[c1].asked /\ callers[c2].asked)
            => callers[c1].date[1] # callers[c2].date[1]
    /\ OneMintOneIdentifier

\* C20 as amended: with the critical section, no two callers get a calendar
\* for the same month (a query that failed may be followed by another
\* caller's query), no date gets two minted identifiers and callers of one
\* date get one identifier.
C20_OneFetchPerMonthUnderLock ==
    /\ \A c1 \in Callers, c2 \in Callers :
          (c1 # c2 /\ callers[c1].fetched /\ callers[c2].fetched)
            => callers[c1].date[1] # callers[c2].date[1]
    /\ OneMintOneIdentifier

C20_Witness ==
    /\ callers[1].pc = "done" /\ callers[2].pc = "done"
    /\ callers[1].date = callers[2].date
    /\ callers[1].err = "nil" /\ callers[2].err = "nil"
    /\ callers[1].fetched /\ callers[1].minted
    /\ ~callers[2].asked /\ ~callers[2].minted
    /\ callers[2].id = callers[1].id
    /\ callers[1].id.origin = "client"

\* ---------------------------------------------- claims on the out format
\* C21: Set, and UnmarshalText through it, given pretty, json or yaml
\* returns nil and the format held is the value given; given any other
\* string it returns an error and the format held is the one held before;
\* once a Set has succeeded the format held is one of the three.
C21_SetAcceptsTheThreeFormats ==
    /\ setResult.op # "none" =>
          /\ setResult.value \in OutFormats
                => (setResult.err = "nil" /\ outFormat = setResult.value)
          /\ setResult.value \notin OutFormats
                => (setResult.err # "nil" /\ outFormat = setResult.prev)
    /\ setResult.everSet => outFormat \in OutFormats

C21_Witness ==
    /\ setResult.op = "UnmarshalText"
    /\ setResult.value = "JSON"
    /\ setResult.err # "nil"
    /\ setResult.prev = "yaml"
    /\ outFormat = "yaml"
    /\ setResult.everSet

====
